---- MODULE Spec2Model ----
(***************************************************************************)
(* Client-side session / authorization layer of the BossUp frontend:      *)
(* TokenManager (localStorage session store), API.request and the auth    *)
(* endpoints built on it, requireAuth / redirectToDashboard, and the      *)
(* Firebase-based sign-in flow of app.js that shares the 'bossup_token'   *)
(* key.                                                                    *)
(***************************************************************************)
EXTENDS Integers, Sequences, FiniteSets, Bags

VARIABLES
    localStorage,   \* window.localStorage: key -> stored string, Null when the key is absent
    location,       \* window.location.href, the last href assigned
    inflight,       \* bag of API.request calls suspended at `await fetch(...)`
    state,          \* app.js module-level state {user, token, isLoading}
    firebase,       \* app.js: whether the Firebase SDK is loaded (typeof firebase !== 'undefined')
    pending,        \* app.js asynchronous flows suspended at an await
    sessionExpired, \* history: a 401 was handled and no sign-in has succeeded since
    currentRejectId, \* app.js admin page: campaign the rejection modal was opened for
    hops,           \* history: automatic redirects followed since the user last opened a page
    wired,          \* submit handlers the scripts of the loaded page have attached
    last            \* outcome of the handler that ran last (what its caller observes)

vars == <<localStorage, location, inflight, state, firebase, pending, sessionExpired,
          currentRejectId, hops, wired, last>>

(***************************************************************************)
(* Bounds                                                                  *)
(***************************************************************************)
\* asynchronous operations (API calls and app.js flows) suspended at an await
MaxInFlight == 1
\* API calls in flight at once on a page that starts several without awaiting
MaxConcurrent == 2
\* automatic redirects the browser follows in a row
MaxHops == 3

(***************************************************************************)
(* JavaScript values                                                       *)
(***************************************************************************)
Undefined == [t |-> "undefined"]
Null == [t |-> "null"]
Str(s) == [t |-> "string", s |-> s]
Obj(p) == [t |-> "object", p |-> p]
Arr(a) == [t |-> "array", a |-> a]
Err(name, message) == [t |-> "error", name |-> name, message |-> message]

\* ToBoolean: what `if (v)`, `!!v`, `v ? a : b` and `a || b` test
Truthy(v) == v \notin {Undefined, Null, Str("")}

\* ToStr: the coercion localStorage.setItem and template literals apply
ToStr(v) ==
    CASE v.t = "string" -> v.s
      [] v.t = "undefined" -> "undefined"
      [] v.t = "null" -> "null"
      [] OTHER -> "[object Object]"

\* property read o.k (o?.k on null/undefined yields undefined)
Get(o, k) == IF o.t = "object" /\ k \in DOMAIN o.p THEN o.p[k] ELSE Undefined

\* Array.prototype.includes
Includes(arr, v) == \E i \in 1..Len(arr.a) : arr.a[i] = v

(***************************************************************************)
(* JSON.stringify / JSON.parse on the values the session layer serialises  *)
(***************************************************************************)
PropOrder == <<"user_id", "role">>

RECURSIVE StringifyProps(_, _, _)
\* members of an object in property order; undefined-valued members are omitted
StringifyProps(p, keys, sep) ==
    IF keys = <<>> THEN ""
    ELSE LET k == Head(keys) IN
         IF k \in DOMAIN p /\ p[k] # Undefined
         THEN sep \o "\"" \o k \o "\":"
                  \o (IF p[k] = Null THEN "null" ELSE "\"" \o p[k].s \o "\"")
                  \o StringifyProps(p, Tail(keys), ",")
         ELSE StringifyProps(p, Tail(keys), sep)

JSONstringify(v) ==
    CASE v.t = "undefined" -> Undefined
      [] v.t = "null" -> Str("null")
      [] v.t = "string" -> Str("\"" \o v.s \o "\"")
      [] OTHER -> Str("{" \o StringifyProps(v.p, PropOrder, "") \o "}")

Roles == {"INVESTOR", "BUSINESS_OWNER", "ADMIN"}
RoleStrings == Roles \cup {"GUEST"}
UserIds == {"u1"}
Tokens == {"T1", "T2"}

\* the JSON values whose text the session layer can write
JsonScalars(S) == {Null} \cup {Str(s) : s \in S}
JsonValues ==
    {Null} \cup {Str(s) : s \in UserIds \cup RoleStrings \cup Tokens \cup {""}}
    \cup {Obj(p) : p \in [{} -> {Null}]
                       \cup [{"user_id"} -> JsonScalars(UserIds \cup RoleStrings)]
                       \cup [{"role"} -> JsonScalars(UserIds \cup RoleStrings)]
                       \cup [{"user_id", "role"} -> JsonScalars(UserIds \cup RoleStrings)]}

\* the text of every such value
JsonTexts == [v \in JsonValues |-> JSONstringify(v)]

\* JSON.parse: the value a valid text denotes; a SyntaxError for any other text
JSONparse(text) ==
    IF \E v \in JsonValues : JsonTexts[v] = text
    THEN CHOOSE v \in JsonValues : JsonTexts[v] = text
    ELSE Err("SyntaxError", "Unexpected token")

(***************************************************************************)
(* localStorage                                                            *)
(***************************************************************************)
getItem(ls, key) == ls[key]
setItem(ls, key, value) == [ls EXCEPT ![key] = Str(ToStr(value))]
removeItem(ls, key) == [ls EXCEPT ![key] = Null]

(***************************************************************************)
(* TokenManager                                                            *)
(***************************************************************************)
getToken(ls) == getItem(ls, "bossup_token")

\* the header value stored in place of the token
setToken_bearer(ls, token) == setItem(ls, "bossup_token", Str("Bearer " \o ToStr(token)))

setToken(ls, token) == setItem(ls, "bossup_token", token)

removeToken(ls) == removeItem(ls, "bossup_token")

getUserData(ls) ==
    LET data == getItem(ls, "bossup_user")
    IN IF Truthy(data) THEN JSONparse(data) ELSE Null

setUserData(ls, data) == setItem(ls, "bossup_user", JSONstringify(data))

\* clearAll that removes one key per call: the token, or the identity once the token is gone
clearAll_oneKeyPerCall(ls) ==
    IF getItem(ls, "bossup_token") # Null THEN removeItem(ls, "bossup_token")
    ELSE removeItem(ls, "bossup_user")

\* clearAll that forgets the identity key
clearAll_tokenOnly(ls) == removeItem(ls, "bossup_token")

clearAll(ls) == removeItem(removeItem(ls, "bossup_token"), "bossup_user")

\* a presence test of the key instead of a truthiness test of its value
isAuthenticated_keyPresent(ls) == getToken(ls) # Null

isAuthenticated(ls) == Truthy(getToken(ls))

(***************************************************************************)
(* API.request                                                             *)
(***************************************************************************)
NoRedirect == "none"

\* object spread {...a, ...b}: members of b replace members of a
Spread(a, b) == [k \in DOMAIN a \cup DOMAIN b |-> IF k \in DOMAIN b THEN b[k] ELSE a[k]]

Header(name, value) == [k \in {name} |-> value]

\* the bearer header set before the caller's headers are merged in
requestHeaders_callerWins(ls, optHeaders) ==
    LET token == getToken(ls)
        base == IF Truthy(token)
                THEN Spread(Header("Content-Type", "application/json"),
                            Header("Authorization", "Bearer " \o ToStr(token)))
                ELSE Header("Content-Type", "application/json")
    IN Spread(base, optHeaders)

\* the headers API.request hands to fetch, built before the call is issued
requestHeaders(ls, optHeaders) ==
    LET token == getToken(ls)
        headers == Spread(Header("Content-Type", "application/json"), optHeaders)
    IN IF Truthy(token)
       THEN Spread(headers, Header("Authorization", "Bearer " \o ToStr(token)))
       ELSE headers

\* what the transport delivers: a rejected fetch, or a response with a status and a body
NetworkError == [t |-> "reject", error |-> Err("TypeError", "Failed to fetch")]
Response(status, body) == [t |-> "response", status |-> status, body |-> body]
BodyInvalid == [t |-> "invalid"]

ok(response) == response.status \in 200..299

\* response.json(): the parsed body, or a SyntaxError when the body is not JSON
json(response) ==
    IF response.body = BodyInvalid THEN Err("SyntaxError", "Unexpected token")
    ELSE response.body

Return(ls, redirect, value, bodyRead) ==
    [ls |-> ls, redirect |-> redirect, result |-> "return",
     value |-> value, error |-> Null, bodyRead |-> bodyRead]
Throw(ls, error, bodyRead) ==
    [ls |-> ls, redirect |-> NoRedirect, result |-> "throw",
     value |-> Undefined, error |-> error, bodyRead |-> bodyRead]

\* an error that never looks at the body
requestError_generic(data) == Err("Error", "Request failed")

\* new Error(data.detail || 'Request failed'); reading .detail of null is a TypeError
requestError(data) ==
    IF data = Null
    THEN Err("TypeError", "Cannot read properties of null (reading 'detail')")
    ELSE Err("Error", IF Truthy(Get(data, "detail"))
                      THEN ToStr(Get(data, "detail"))
                      ELSE "Request failed")

\* API.request without the 401 branch: a 401 is handled like any failed status
request_no401(ls, settled) ==
    IF settled.t = "reject" THEN Throw(ls, settled.error, FALSE)
    ELSE LET data == json(settled) IN
         IF data.t = "error" THEN Throw(ls, data, TRUE)
         ELSE IF ~ok(settled) THEN Throw(ls, requestError(data), TRUE)
         ELSE Return(ls, NoRedirect, data, TRUE)

request_genericReject(ls, settled) ==
    IF settled.t = "reject" THEN Throw(ls, Err("Error", "Request failed"), FALSE)
    ELSE IF settled.status = 401
    THEN Return(clearAll(ls), "/login.html", Null, FALSE)
    ELSE LET data == json(settled) IN
         IF data.t = "error" THEN Throw(ls, data, TRUE)
         ELSE IF ~ok(settled) THEN Throw(ls, requestError(data), TRUE)
         ELSE Return(ls, NoRedirect, data, TRUE)

request_clearOnFailure(ls, settled) ==
    IF settled.t = "reject" THEN Throw(ls, settled.error, FALSE)
    ELSE IF settled.status = 401
    THEN Return(clearAll(ls), "/login.html", Null, FALSE)
    ELSE LET data == json(settled) IN
         IF data.t = "error" THEN Throw(ls, data, TRUE)
         ELSE IF ~ok(settled) THEN Throw(clearAll(ls), requestError(data), TRUE)
         ELSE Return(ls, NoRedirect, data, TRUE)

request_noClear(ls, settled) ==
    IF settled.t = "reject" THEN Throw(ls, settled.error, FALSE)
    ELSE IF settled.status = 401
    THEN Return(ls, "/login.html", Null, FALSE)
    ELSE LET data == json(settled) IN
         IF data.t = "error" THEN Throw(ls, data, TRUE)
         ELSE IF ~ok(settled) THEN Throw(ls, requestError(data), TRUE)
         ELSE Return(ls, NoRedirect, data, TRUE)

\* API.request from the point where `await fetch` settles
request(ls, settled) ==
    IF settled.t = "reject" THEN Throw(ls, settled.error, FALSE)
    ELSE IF settled.status = 401
    THEN Return(clearAll(ls), "/login.html", Null, FALSE)
    ELSE LET data == json(settled) IN
         IF data.t = "error" THEN Throw(ls, data, TRUE)
         ELSE IF ~ok(settled) THEN Throw(ls, requestError(data), TRUE)
         ELSE Return(ls, NoRedirect, data, TRUE)

\* the identity built with its two members exchanged
identityOf_swapped(response) ==
    Obj([user_id |-> Get(response, "role"), role |-> Get(response, "user_id")])

\* the identity object login and signup build from the response
identityOf(response) ==
    Obj([user_id |-> Get(response, "user_id"), role |-> Get(response, "role")])

\* API.login from the point where its request settles
login(ls, settled) ==
    LET r == request(ls, settled) IN
    IF r.result = "return" /\ Truthy(r.value)
    THEN [r EXCEPT !.ls = setUserData(setToken(r.ls, Get(r.value, "access_token")),
                                      identityOf(r.value))]
    ELSE r

\* API.signup from the point where its request settles
signup(ls, settled) ==
    LET r == request(ls, settled) IN
    IF r.result = "return" /\ Truthy(r.value)
    THEN [r EXCEPT !.ls = setUserData(setToken(r.ls, Get(r.value, "access_token")),
                                      identityOf(r.value))]
    ELSE r

(***************************************************************************)
(* redirectToDashboard / requireAuth                                       *)
(***************************************************************************)
\* a redirect that ignores the role
redirectToDashboard_swapped(role) ==
    CASE role = Str("INVESTOR") -> "/business-dashboard.html"
      [] role = Str("BUSINESS_OWNER") -> "/investor-dashboard.html"
      [] role = Str("ADMIN") -> "/admin.html"
      [] OTHER -> "/index.html"

redirectToDashboard_home(role) == "/index.html"

redirectToDashboard(role) ==
    CASE role = Str("INVESTOR") -> "/investor-dashboard.html"
      [] role = Str("BUSINESS_OWNER") -> "/business-dashboard.html"
      [] role = Str("ADMIN") -> "/admin.html"
      [] OTHER -> "/index.html"

\* a guard that also refuses a session whose identity has no user_id
requireAuth_needsUserId(ls, allowedRoles) ==
    IF ~isAuthenticated(ls)
    THEN [result |-> "return", value |-> FALSE, redirect |-> "/login.html"]
    ELSE LET userData == getUserData(ls) IN
         IF userData.t = "error"
         THEN [result |-> "throw", value |-> userData, redirect |-> NoRedirect]
         ELSE IF Get(userData, "user_id") = Undefined
         THEN [result |-> "return", value |-> FALSE, redirect |-> "/login.html"]
         ELSE IF Truthy(allowedRoles) /\ ~Includes(allowedRoles, Get(userData, "role"))
         THEN [result |-> "return", value |-> FALSE,
               redirect |-> redirectToDashboard(Get(userData, "role"))]
         ELSE [result |-> "return", value |-> TRUE, redirect |-> NoRedirect]

\* a guard that tests the role even when no role list is given
requireAuth_strict(ls, allowedRoles) ==
    IF ~isAuthenticated(ls)
    THEN [result |-> "return", value |-> FALSE, redirect |-> "/login.html"]
    ELSE LET userData == getUserData(ls) IN
         IF userData.t = "error"
         THEN [result |-> "throw", value |-> userData, redirect |-> NoRedirect]
         ELSE IF ~(Truthy(allowedRoles) /\ Includes(allowedRoles, Get(userData, "role")))
         THEN [result |-> "return", value |-> FALSE,
               redirect |-> redirectToDashboard(Get(userData, "role"))]
         ELSE [result |-> "return", value |-> TRUE, redirect |-> NoRedirect]

requireAuth(ls, allowedRoles) ==
    IF ~isAuthenticated(ls)
    THEN [result |-> "return", value |-> FALSE, redirect |-> "/login.html"]
    ELSE LET userData == getUserData(ls) IN
         IF userData.t = "error"
         THEN [result |-> "throw", value |-> userData, redirect |-> NoRedirect]
         ELSE IF Truthy(allowedRoles) /\ ~Includes(allowedRoles, Get(userData, "role"))
         THEN [result |-> "return", value |-> FALSE,
               redirect |-> redirectToDashboard(Get(userData, "role"))]
         ELSE [result |-> "return", value |-> TRUE, redirect |-> NoRedirect]

(***************************************************************************)
(* Inputs                                                                  *)
(***************************************************************************)
\* an object literal whose undefined members are left out
ObjOf(rec) == Obj([k \in {k \in DOMAIN rec : rec[k] # Undefined} |-> rec[k]])

AuthBodies ==
    {ObjOf([access_token |-> tok, user_id |-> Str(u), role |-> Str(r)]) :
        tok \in {Str("")} \cup {Str(x) : x \in Tokens}, u \in UserIds, r \in RoleStrings}

DetailBodies == {ObjOf([detail |-> d]) : d \in {Undefined, Null, Str(""), Str("X")}}

Bodies == {BodyInvalid, Null} \cup DetailBodies \cup AuthBodies

\* a 401 is answered whatever its body; failures carry an error body or no JSON at all
Settlements ==
    {NetworkError}
    \cup {Response(401, b) : b \in {BodyInvalid, ObjOf([detail |-> Str("X")])}}
    \cup {Response(s, b) : s \in {403, 500}, b \in {BodyInvalid, Null} \cup DetailBodies}
    \cup {Response(200, b) : b \in Bodies}
    \cup {Response(201, b) : b \in {Null, ObjOf([access_token |-> Str("T1"),
                                                 user_id |-> Str("u1"),
                                                 role |-> Str("INVESTOR")])}}

\* options.headers a caller of API.request may pass
CallerHeaders ==
    {<<>>, Header("Content-Type", "text/plain"), Header("Authorization", "Basic abc")}

AllowedRoles == {Null} \cup {Arr(<<Str(r)>>) : r \in Roles}

Endpoint(op) ==
    CASE op = "login" -> "/auth/login"
      [] op = "signup" -> "/auth/signup"
      [] OTHER -> "/auth/me"

(***************************************************************************)
(* State machine of the api.js layer                                       *)
(***************************************************************************)
\* app.js `state` as the script creates it
InitialState == [user |-> Null, token |-> Null, isLoading |-> FALSE]

\* localStorage of an origin that has stored nothing yet
EmptyStorage == [k \in {"bossup_token", "bossup_user"} |-> Null]

Init ==
    /\ localStorage = EmptyStorage
    /\ location = "/index.html"
    /\ inflight = EmptyBag
    /\ state = InitialState
    /\ firebase = FALSE
    /\ pending = EmptyBag
    /\ sessionExpired = FALSE
    /\ currentRejectId = Null
    /\ hops = 0
    /\ wired = {}
    /\ last = [op |-> "load"]

Outstanding == BagCardinality(inflight) + BagCardinality(pending)

Navigate(redirect) == location' = IF redirect = NoRedirect THEN location ELSE redirect

\* API.request / API.login / API.signup up to `await fetch`: headers built, call issued
Send(op, optHeaders) ==
    /\ LET call == [op |-> op, endpoint |-> Endpoint(op),
                    headers |-> requestHeaders(localStorage, optHeaders)]
       IN /\ inflight' = inflight (+) SetToBag({call})
          /\ last' = [op |-> "fetch", call |-> call, optHeaders |-> optHeaders,
                      token |-> getToken(localStorage)]
    /\ UNCHANGED <<localStorage, location, state, firebase, pending, sessionExpired, currentRejectId, hops, wired>>

Fetch(op, optHeaders) == Outstanding < MaxInFlight /\ Send(op, optHeaders)

CallRequest == \E h \in CallerHeaders : Fetch("request", h)
CallLogin == Fetch("login", <<>>)
CallSignup == Fetch("signup", <<>>)

Settle_cancelOthers(call, settled) ==
    LET r == CASE call.op = "login" -> login(localStorage, settled)
               [] call.op = "signup" -> signup(localStorage, settled)
               [] OTHER -> request(localStorage, settled)
    IN /\ inflight' = IF settled.t = "response" /\ settled.status = 401 THEN EmptyBag
                     ELSE inflight (-) SetToBag({call})
       /\ localStorage' = r.ls
       /\ Navigate(r.redirect)
       /\ last' = [op |-> call.op, settled |-> settled, before |-> localStorage,
                   result |-> r.result, value |-> r.value, error |-> r.error,
                   redirect |-> r.redirect, bodyRead |-> r.bodyRead]
       /\ sessionExpired' =
            IF settled.t = "response" /\ settled.status = 401 THEN TRUE
            ELSE IF call.op \in {"login", "signup"} /\ r.result = "return" /\ Truthy(r.value)
                 THEN FALSE
                 ELSE sessionExpired
       /\ UNCHANGED <<state, firebase, pending, currentRejectId, hops, wired>>

\* the fetch of an in-flight call settles and the call runs to completion
Settle(call, settled) ==
    LET r == CASE call.op = "login" -> login(localStorage, settled)
               [] call.op = "signup" -> signup(localStorage, settled)
               [] OTHER -> request(localStorage, settled)
    IN /\ inflight' = inflight (-) SetToBag({call})
       /\ localStorage' = r.ls
       /\ Navigate(r.redirect)
       /\ last' = [op |-> call.op, settled |-> settled, before |-> localStorage,
                   result |-> r.result, value |-> r.value, error |-> r.error,
                   redirect |-> r.redirect, bodyRead |-> r.bodyRead]
       /\ sessionExpired' =
            IF settled.t = "response" /\ settled.status = 401 THEN TRUE
            ELSE IF call.op \in {"login", "signup"} /\ r.result = "return" /\ Truthy(r.value)
                 THEN FALSE
                 ELSE sessionExpired
       /\ UNCHANGED <<state, firebase, pending, currentRejectId, hops, wired>>

Resume == \E call \in BagToSet(inflight), settled \in Settlements : Settle(call, settled)

\* a logout that removes the token and leaves the identity behind
Logout_tokenOnly ==
    /\ localStorage' = removeToken(localStorage)
    /\ Navigate("/login.html")
    /\ last' = [op |-> "logout", before |-> localStorage, redirect |-> "/login.html"]
    /\ UNCHANGED <<inflight, state, firebase, pending, sessionExpired, currentRejectId, hops, wired>>

\* API.logout
Logout ==
    /\ localStorage' = clearAll(localStorage)
    /\ Navigate("/login.html")
    /\ last' = [op |-> "logout", before |-> localStorage, redirect |-> "/login.html"]
    /\ UNCHANGED <<inflight, state, firebase, pending, sessionExpired, currentRejectId, hops, wired>>

\* a protected page calls requireAuth
RequireAuth ==
    \E allowedRoles \in AllowedRoles :
        LET r == requireAuth(localStorage, allowedRoles) IN
        /\ Navigate(r.redirect)
        /\ last' = [op |-> "requireAuth", allowedRoles |-> allowedRoles,
                    result |-> r.result, value |-> r.value, redirect |-> r.redirect]
        /\ UNCHANGED <<localStorage, inflight, state, firebase, pending, sessionExpired, currentRejectId, hops, wired>>

(***************************************************************************)
(* app.js: Firebase sign-in flow sharing the 'bossup_token' key            *)
(***************************************************************************)
\* what the backend may answer to the token exchange
ExchangeBodies ==
    {BodyInvalid, Null, ObjOf(<<>>)}
    \cup {ObjOf([access_token |-> Str(tok), user |-> Obj([uid |-> Str("u1")])]) :
            tok \in {"", "T1"}}

ExchangeSettlements ==
    {NetworkError, Response(401, BodyInvalid), Response(500, BodyInvalid)}
    \cup {Response(200, b) : b \in ExchangeBodies}

\* exchangeTokenWithBackend from the point where `await fetch` settles:
\* the new {state, localStorage}; every failure is caught and only notified
exchangeTokenWithBackend(st, ls, settled) ==
    IF settled.t = "reject" \/ ~ok(settled) THEN [state |-> st, ls |-> ls, done |-> FALSE]
    ELSE LET data == json(settled) IN
         IF data.t = "error" \/ data = Null THEN [state |-> st, ls |-> ls, done |-> FALSE]
         ELSE LET token == Get(data, "access_token") IN
              [state |-> [st EXCEPT !.token = token, !.user = Get(data, "user")],
               ls |-> setItem(ls, "bossup_token", token),
               done |-> TRUE]

\* onAuthStateChanged(user) with a signed-in user: the exchange is issued
AuthStateSignedIn ==
    /\ firebase
    /\ Outstanding < MaxInFlight
    /\ pending' = pending (+) SetToBag({"exchange"})
    /\ last' = [op |-> "onAuthStateChanged", user |-> TRUE]
    /\ UNCHANGED <<localStorage, location, inflight, state, firebase, sessionExpired, currentRejectId, hops, wired>>

ExchangeSettle ==
    /\ BagIn("exchange", pending)
    /\ \E settled \in ExchangeSettlements :
        LET r == exchangeTokenWithBackend(state, localStorage, settled) IN
        /\ state' = r.state
        /\ localStorage' = r.ls
        /\ sessionExpired' = IF r.done THEN FALSE ELSE sessionExpired
        /\ last' = [op |-> "exchangeTokenWithBackend", settled |-> settled, done |-> r.done]
    /\ pending' = pending (-) SetToBag({"exchange"})
    /\ UNCHANGED <<location, inflight, firebase, currentRejectId, hops, wired>>

\* onAuthStateChanged(null): the user is signed out
AuthStateSignedOut ==
    /\ firebase
    /\ state' = [state EXCEPT !.user = Null, !.token = Null]
    /\ last' = [op |-> "onAuthStateChanged", user |-> FALSE]
    /\ UNCHANGED <<localStorage, location, inflight, firebase, pending, sessionExpired, currentRejectId, hops, wired>>

\* signOut up to `await firebase.auth().signOut()`; without the SDK the
\* reference to `firebase` throws inside the try and the call ends there
SignOutCall ==
    /\ firebase => Outstanding < MaxInFlight
    /\ pending' = IF firebase THEN pending (+) SetToBag({"signOut"}) ELSE pending
    /\ last' = [op |-> "signOut", awaiting |-> firebase]
    /\ UNCHANGED <<localStorage, location, inflight, state, firebase, sessionExpired, currentRejectId, hops, wired>>

\* firebase.auth().signOut() settles: fulfilled, or rejected and caught
SignOutSettle ==
    /\ BagIn("signOut", pending)
    /\ \E fulfilled \in BOOLEAN :
        /\ state' = IF fulfilled THEN [state EXCEPT !.user = Null, !.token = Null] ELSE state
        /\ localStorage' = IF fulfilled THEN removeItem(localStorage, "bossup_token")
                           ELSE localStorage
        /\ Navigate(IF fulfilled THEN "/index.html" ELSE NoRedirect)
        /\ last' = [op |-> "signOut.settled", fulfilled |-> fulfilled,
                    redirect |-> IF fulfilled THEN "/index.html" ELSE NoRedirect]
    /\ pending' = pending (-) SetToBag({"signOut"})
    /\ UNCHANGED <<inflight, firebase, sessionExpired, currentRejectId, hops, wired>>

Next == CallRequest \/ CallLogin \/ CallSignup \/ Resume \/ Logout \/ RequireAuth

Spec == Init /\ [][Next]_vars

(***************************************************************************)
(* Pages that run app.js next to api.js: both write 'bossup_token'         *)
(***************************************************************************)
AppInit ==
    /\ localStorage = EmptyStorage
    /\ location = "/index.html"
    /\ inflight = EmptyBag
    /\ state = InitialState
    /\ firebase \in BOOLEAN
    /\ pending = EmptyBag
    /\ sessionExpired = FALSE
    /\ currentRejectId = Null
    /\ hops = 0
    /\ wired = {}
    /\ last = [op |-> "load"]

AppSettlements ==
    {NetworkError, Response(401, BodyInvalid), Response(403, ObjOf([detail |-> Str("X")]))}
    \cup {Response(200, b) :
            b \in {Null, ObjOf(<<>>)}
                  \cup {ObjOf([access_token |-> Str("T1"), user_id |-> Str("u1"),
                               role |-> Str(r)]) : r \in RoleStrings}}

AppResume ==
    \E call \in BagToSet(inflight), settled \in AppSettlements : Settle(call, settled)

\* a page script calls an API method that passes no headers of its own
AppCallRequest == Fetch("request", <<>>)

AppNext ==
    \/ AppCallRequest \/ CallLogin \/ CallSignup \/ AppResume \/ Logout \/ RequireAuth
    \/ AuthStateSignedIn \/ ExchangeSettle \/ AuthStateSignedOut
    \/ SignOutCall \/ SignOutSettle

AppSpec == AppInit /\ [][AppNext]_vars

(***************************************************************************)
(* app.js on its own: apiRequest, the page-load restore, signIn / signUp   *)
(***************************************************************************)
\* the headers apiRequest hands to fetch: the token is state.token or, failing
\* that, the stored one; the caller's headers are merged in last
apiRequestHeaders(st, ls, optHeaders) ==
    LET token == IF Truthy(st.token) THEN st.token ELSE getItem(ls, "bossup_token")
        defaults == IF Truthy(token)
                    THEN Spread(Header("Content-Type", "application/json"),
                                Header("Authorization", "Bearer " \o ToStr(token)))
                    ELSE Header("Content-Type", "application/json")
    IN Spread(defaults, optHeaders)

ApiRequestSettlements ==
    {NetworkError, Response(401, BodyInvalid), Response(500, BodyInvalid),
     Response(200, BodyInvalid), Response(200, ObjOf([user_id |-> Str("u1")]))}

\* apiRequest up to `await fetch`
ApiRequestSend(endpoint) ==
    LET call == [op |-> "apiRequest", endpoint |-> endpoint,
                 headers |-> apiRequestHeaders(state, localStorage, <<>>)]
    IN /\ inflight' = inflight (+) SetToBag({call})
       /\ last' = [op |-> "apiRequest", call |-> call]

\* getPortfolio() starts its apiRequest
ApiRequestCall ==
    /\ Outstanding < MaxInFlight
    /\ ApiRequestSend("/users/me/portfolio")
    /\ UNCHANGED <<localStorage, location, state, firebase, pending, sessionExpired,
                   currentRejectId, hops, wired>>

\* apiRequest from the point where `await fetch` settles. A 401 calls signOut()
\* without awaiting it and returns null; signOut() suspends at its own await when
\* the SDK is loaded and ends in its catch block when it is not. The page-load
\* caller ('/users/me') stores the user of a successful answer.
ApiRequestSettle(call, settled) ==
    LET rejected == settled.t = "reject"
        unauthorized == ~rejected /\ settled.status = 401
        user == IF rejected \/ unauthorized \/ ~ok(settled) THEN Err("none", "")
                ELSE json(settled)
    IN /\ inflight' = inflight (-) SetToBag({call})
       /\ pending' = IF unauthorized /\ firebase THEN pending (+) SetToBag({"signOut"})
                     ELSE pending
       /\ state' = IF call.endpoint = "/users/me" /\ user.t # "error"
                   THEN [state EXCEPT !.user = user] ELSE state
       /\ last' = [op |-> "apiRequest.settled", settled |-> settled,
                   result |-> IF rejected THEN "throw" ELSE "return",
                   value |-> IF rejected THEN Undefined
                             ELSE IF unauthorized THEN Null ELSE settled,
                   signOut |-> unauthorized]
       /\ UNCHANGED <<localStorage, location, firebase, sessionExpired, currentRejectId, hops, wired>>

ApiRequestResume ==
    \E call \in BagToSet(inflight), settled \in ApiRequestSettlements :
        call.op = "apiRequest" /\ ApiRequestSettle(call, settled)

\* the DOMContentLoaded handler of app.js: a stored token is restored into
\* state.token and validated with apiRequest('/users/me')
restoreSession(ls) ==
    LET storedToken == getItem(ls, "bossup_token")
        st == [InitialState EXCEPT !.token = storedToken]
    IN IF Truthy(storedToken)
       THEN [state |-> st,
             inflight |-> SetToBag({[op |-> "apiRequest", endpoint |-> "/users/me",
                                     headers |-> apiRequestHeaders(st, ls, <<>>)]})]
       ELSE [state |-> InitialState, inflight |-> EmptyBag]

\* a page of app.js has opened and its handler has run; an earlier visit may have
\* left a token behind
AppJsInit ==
    /\ localStorage \in {EmptyStorage, setItem(EmptyStorage, "bossup_token", Str("T1"))}
    /\ location = "/index.html"
    /\ inflight = restoreSession(localStorage).inflight
    /\ state = restoreSession(localStorage).state
    /\ firebase \in BOOLEAN
    /\ pending = EmptyBag
    /\ sessionExpired = FALSE
    /\ currentRejectId = Null
    /\ hops = 0
    /\ wired = {}
    /\ last = [op |-> "DOMContentLoaded", storedToken |-> getItem(localStorage, "bossup_token")]

\* the page is loaded again: the script starts afresh and nothing of the old
\* document stays in flight
PageLoadRestore ==
    /\ pending' = EmptyBag
    /\ state' = restoreSession(localStorage).state
    /\ inflight' = restoreSession(localStorage).inflight
    /\ last' = [op |-> "DOMContentLoaded", storedToken |-> getItem(localStorage, "bossup_token")]
    /\ UNCHANGED <<localStorage, location, firebase, sessionExpired, currentRejectId, hops, wired>>

\* signIn / signUp calls that have not completed yet
SigningIn == CopiesIn("signIn", pending) + CopiesIn("signUp", pending)

\* signIn / signUp up to their first await: isLoading is set; without the SDK the
\* reference to `firebase` throws, the error is rethrown and `finally` runs at once
SignCall(op) ==
    /\ SigningIn < MaxConcurrent
    /\ pending' = IF firebase THEN pending (+) SetToBag({op}) ELSE pending
    /\ state' = [state EXCEPT !.isLoading = firebase]
    /\ last' = [op |-> op, awaiting |-> firebase,
                result |-> IF firebase THEN "pending" ELSE "throw"]
    /\ UNCHANGED <<localStorage, location, inflight, firebase, sessionExpired,
                   currentRejectId, hops, wired>>

SignInCall == SignCall("signIn")

SignUpCall == SignCall("signUp")

\* the awaited work of one signIn / signUp call completes, with the user or with an
\* error that is rethrown; `finally` clears isLoading either way
SignSettle(op, fulfilled) ==
    /\ pending' = pending (-) SetToBag({op})
    /\ state' = [state EXCEPT !.isLoading = FALSE]
    /\ last' = [op |-> op \o ".settled", result |-> IF fulfilled THEN "return" ELSE "throw"]
    /\ UNCHANGED <<localStorage, location, inflight, firebase, sessionExpired,
                   currentRejectId, hops, wired>>

SignResume ==
    \E op \in {"signIn", "signUp"}, fulfilled \in BOOLEAN :
        BagIn(op, pending) /\ SignSettle(op, fulfilled)

AppJsNext ==
    \/ PageLoadRestore \/ ApiRequestCall \/ ApiRequestResume
    \/ AuthStateSignedIn \/ ExchangeSettle \/ AuthStateSignedOut
    \/ SignOutCall \/ SignOutSettle
    \/ SignInCall \/ SignUpCall \/ SignResume

AppJsSpec == AppJsInit /\ [][AppJsNext]_vars

(***************************************************************************)
(* Page scripts that issue calls without awaiting the earlier ones          *)
(***************************************************************************)
ConcurrentSettlements ==
    {NetworkError, Response(401, BodyInvalid), Response(500, ObjOf([detail |-> Str("X")])),
     Response(200, ObjOf(<<>>)),
     Response(200, ObjOf([access_token |-> Str("T1"), user_id |-> Str("u1"),
                          role |-> Str("INVESTOR")]))}

\* loadUserProfile(), loadPortfolio(), loadTransactions(): each starts a call and
\* suspends at its await while the others are still in flight
ConcurrentCall ==
    /\ BagCardinality(inflight) < MaxConcurrent
    /\ \E op \in {"request", "login"} : Send(op, <<>>)

ConcurrentResume ==
    \E call \in BagToSet(inflight), settled \in ConcurrentSettlements : Settle(call, settled)

ConcurrentNext == ConcurrentCall \/ ConcurrentResume \/ Logout

ConcurrentSpec == Init /\ [][ConcurrentNext]_vars

(***************************************************************************)
(* app.js admin page: approving and rejecting campaigns                    *)
(***************************************************************************)
CampaignIds == {"c1"}
NoAlert == "none"

\* what the textarea of the rejection modal may hold
Reasons == {"", "  ", "spam"}
\* String.prototype.trim
Trim(s) == IF s = "  " THEN "" ELSE s

\* the session an administrator's login left in the store
AdminSession ==
    setUserData(setToken(EmptyStorage, Str("T1")),
                Obj([user_id |-> Str("u1"), role |-> Str("ADMIN")]))

\* the admin page, loaded and passed by requireAuth(['ADMIN'])
AdminInit ==
    /\ localStorage = AdminSession
    /\ location = "/admin.html"
    /\ inflight = EmptyBag
    /\ state = InitialState
    /\ firebase = FALSE
    /\ pending = EmptyBag
    /\ sessionExpired = FALSE
    /\ currentRejectId = Null
    /\ hops = 0
    /\ wired = {}
    /\ last = [op |-> "load"]

AdminSettlements ==
    {NetworkError, Response(401, BodyInvalid), Response(403, ObjOf([detail |-> Str("X")])),
     Response(200, ObjOf(<<>>))}

\* an API method of the admin page up to `await fetch`: no headers of its own
AdminCall(op, endpoint, ls) ==
    [op |-> op, endpoint |-> endpoint, headers |-> requestHeaders(ls, <<>>)]

\* refreshAll(): the four loaders each start their call
refreshAll(ls) ==
    SetToBag({AdminCall("getAdminStats", "/admin/stats", ls),
              AdminCall("getPendingCampaigns", "/admin/campaigns/pending", ls),
              AdminCall("getUsers", "/admin/users", ls),
              AdminCall("getAuditLogs", "/admin/audit-logs?limit=50", ls)})

Loaders == {"getAdminStats", "getPendingCampaigns", "getUsers", "getAuditLogs"}

\* approveCampaign(campaignId) up to the await: nothing happens unless confirmed
ApproveCampaign ==
    \E campaignId \in CampaignIds, confirmed \in BOOLEAN :
        /\ confirmed => Outstanding < MaxInFlight
        /\ inflight' =
             IF confirmed
             THEN inflight (+) SetToBag({AdminCall("approveCampaign",
                      "/admin/campaigns/" \o campaignId \o "/approve", localStorage)})
             ELSE inflight
        /\ last' = [op |-> "approveCampaign", confirmed |-> confirmed, alert |-> NoAlert]
        /\ UNCHANGED <<localStorage, location, state, firebase, pending, sessionExpired,
                       currentRejectId, hops, wired>>

OpenRejectModal ==
    \E campaignId \in CampaignIds :
        /\ currentRejectId' = Str(campaignId)
        /\ last' = [op |-> "openRejectModal"]
        /\ UNCHANGED <<localStorage, location, inflight, state, firebase, pending,
                       sessionExpired, hops, wired>>

CloseRejectModal ==
    /\ currentRejectId' = Null
    /\ last' = [op |-> "closeRejectModal"]
    /\ UNCHANGED <<localStorage, location, inflight, state, firebase, pending, sessionExpired, hops, wired>>

\* submitRejection(e) up to the await: an empty reason is refused with an alert
SubmitRejection ==
    \E text \in Reasons :
        LET reason == Trim(text) IN
        /\ reason # "" => Outstanding < MaxInFlight
        /\ inflight' =
             IF reason # ""
             THEN inflight (+) SetToBag({AdminCall("rejectCampaign",
                      "/admin/campaigns/" \o ToStr(currentRejectId) \o "/reject",
                      localStorage)})
             ELSE inflight
        /\ last' = [op |-> "submitRejection", reason |-> reason,
                    alert |-> IF reason = "" THEN "Please provide a rejection reason"
                              ELSE NoAlert]
        /\ UNCHANGED <<localStorage, location, state, firebase, pending, sessionExpired,
                       currentRejectId, hops, wired>>

\* approveCampaign / submitRejection from the point where their await settles:
\* the success alert, closeRejectModal() and refreshAll(), or the failure alert
AdminSettle(call, settled) ==
    LET r == request(localStorage, settled)
        approve == call.op = "approveCampaign"
        alert == IF r.result = "return"
                 THEN (IF approve THEN "Campaign approved successfully!"
                       ELSE "Campaign rejected")
                 ELSE (IF approve THEN "Failed to approve campaign: "
                       ELSE "Failed to reject campaign: ") \o r.error.message
    IN /\ inflight' = (inflight (-) SetToBag({call}))
                        (+) (IF r.result = "return" THEN refreshAll(r.ls) ELSE EmptyBag)
       /\ localStorage' = r.ls
       /\ Navigate(r.redirect)
       /\ sessionExpired' = IF settled.t = "response" /\ settled.status = 401 THEN TRUE
                            ELSE sessionExpired
       /\ currentRejectId' = IF r.result = "return" /\ ~approve THEN Null
                             ELSE currentRejectId
       /\ last' = [op |-> call.op \o ".settled", settled |-> settled,
                   result |-> r.result, value |-> r.value, redirect |-> r.redirect,
                   alert |-> alert]
       /\ UNCHANGED <<state, firebase, pending, hops, wired>>

AdminResume ==
    \E call \in BagToSet(inflight), settled \in AdminSettlements :
        call.op \in {"approveCampaign", "rejectCampaign"} /\ AdminSettle(call, settled)

\* a loader's call settles; the loader renders what it got and changes nothing else
LoaderResume ==
    \E call \in BagToSet(inflight), settled \in AdminSettlements :
        call.op \in Loaders /\ Settle(call, settled)

AdminNext ==
    \/ ApproveCampaign \/ OpenRejectModal \/ CloseRejectModal \/ SubmitRejection
    \/ AdminResume \/ LoaderResume

AdminSpec == AdminInit /\ [][AdminNext]_vars

(***************************************************************************)
(* TokenManager driven directly, with any argument                         *)
(***************************************************************************)
TokenArgs == {Undefined, Null, Str("")} \cup {Str(x) : x \in Tokens}

UserDataArgs ==
    {Undefined, Null}
    \cup {Obj(p) : p \in [{"user_id", "role"} ->
                            {Undefined} \cup {Str(x) : x \in UserIds \cup RoleStrings}]}

StoreOp(op, arg, ls) ==
    /\ localStorage' = ls
    /\ last' = [op |-> op, arg |-> arg, before |-> localStorage]
    /\ UNCHANGED <<location, inflight, state, firebase, pending, sessionExpired, currentRejectId, hops, wired>>

SetToken == \E token \in TokenArgs : StoreOp("setToken", token, setToken(localStorage, token))
SetUserData ==
    \E data \in UserDataArgs : StoreOp("setUserData", data, setUserData(localStorage, data))
RemoveToken == StoreOp("removeToken", Undefined, removeToken(localStorage))
ClearAll == StoreOp("clearAll", Undefined, clearAll(localStorage))

\* TokenManager.clearAll() called twice in a row; `once` is the store between the calls
ClearAllTwice ==
    LET once == clearAll(localStorage) IN
    /\ localStorage' = clearAll(once)
    /\ last' = [op |-> "clearAll.clearAll", arg |-> Undefined, before |-> localStorage,
                once |-> once]
    /\ UNCHANGED <<location, inflight, state, firebase, pending, sessionExpired, currentRejectId, hops, wired>>

StoreNext ==
    SetToken \/ SetUserData \/ RemoveToken \/ ClearAll \/ ClearAllTwice \/ RequireAuth

StoreSpec == Init /\ [][StoreNext]_vars

(***************************************************************************)
(* Pages: the DOMContentLoaded handler of each page and the redirects      *)
(***************************************************************************)
AuthPages == {"/login.html", "/signup.html"}

Pages ==
    AuthPages \cup {"/investor-dashboard.html", "/business-dashboard.html", "/admin.html",
                    "/index.html"}

\* what a page may find in the store: any token next to any stored identity
StoreStates ==
    LET tokens == {EmptyStorage} \cup {setToken(EmptyStorage, Str(t)) : t \in {"", "T1"}}
    IN tokens \cup {setUserData(ls, data) : ls \in tokens, data \in UserDataArgs}

Answered401(settled) == settled.t = "response" /\ settled.status = 401

\* a handler has assigned window.location.href and the browser has yet to follow
Redirecting == "redirect" \in DOMAIN last /\ last.redirect # NoRedirect

\* the outcome of a page's handler: where it redirects, the calls its loaders
\* start, the submit handlers it attaches and what it leaves in app.js `state`
Loaded(result, redirect, calls, handlers, st) ==
    [result |-> result, redirect |-> redirect, calls |-> calls, wired |-> handlers,
     state |-> st]

FormOf(page) == IF page = "/login.html" THEN "login-form" ELSE "signup-form"

\* the auth page handler with a default target of the login page itself
authPage_loginDefault(ls, page) ==
    IF isAuthenticated(ls)
    THEN LET userData == getUserData(ls) IN
         IF userData.t = "error"
         THEN Loaded("throw", NoRedirect, EmptyBag, {}, InitialState)
         ELSE Loaded("return",
                     IF Get(userData, "role") \in {Str(r) : r \in Roles}
                     THEN redirectToDashboard(Get(userData, "role")) ELSE "/login.html",
                     EmptyBag, {}, InitialState)
    ELSE Loaded("return", NoRedirect, EmptyBag, {FormOf(page)}, InitialState)

\* an auth page handler that attaches the submit handler before it looks at the session
authPage_wiresFirst(ls, page) ==
    IF isAuthenticated(ls)
    THEN LET userData == getUserData(ls) IN
         IF userData.t = "error"
         THEN Loaded("throw", NoRedirect, EmptyBag, {FormOf(page)}, InitialState)
         ELSE Loaded("return", redirectToDashboard(Get(userData, "role")), EmptyBag,
                     {FormOf(page)}, InitialState)
    ELSE Loaded("return", NoRedirect, EmptyBag, {FormOf(page)}, InitialState)

\* login / signup page: an authenticated visitor is sent to the dashboard of the
\* stored role and the handler returns; otherwise the page's form is wired
authPage(ls, page) ==
    IF isAuthenticated(ls)
    THEN LET userData == getUserData(ls) IN
         IF userData.t = "error"
         THEN Loaded("throw", NoRedirect, EmptyBag, {}, InitialState)
         ELSE Loaded("return", redirectToDashboard(Get(userData, "role")), EmptyBag, {},
                     InitialState)
    ELSE Loaded("return", NoRedirect, EmptyBag, {FormOf(page)}, InitialState)

\* the calls the loaders of a dashboard start once requireAuth has let the page in
dashboardLoaders(page, ls) ==
    CASE page = "/investor-dashboard.html" ->
             SetToBag({AdminCall("getCurrentUser", "/auth/me", ls)})
             (+) SetToBag({AdminCall("getMyTransactions", "/payments/my", ls)})
             (+) SetToBag({AdminCall("getMyTransactions", "/payments/my", ls)})
      [] page = "/business-dashboard.html" ->
             SetToBag({AdminCall("getCurrentUser", "/auth/me", ls),
                       AdminCall("getMyCampaigns", "/campaigns/my", ls)})
      [] OTHER -> refreshAll(ls)

RoleOf(page) ==
    CASE page = "/investor-dashboard.html" -> "INVESTOR"
      [] page = "/business-dashboard.html" -> "BUSINESS_OWNER"
      [] OTHER -> "ADMIN"

\* a dashboard: requireAuth([role]) first, the loaders only when it returns true
dashboardPage(ls, page) ==
    LET r == requireAuth(ls, Arr(<<Str(RoleOf(page))>>)) IN
    IF r.result = "return" /\ r.value = TRUE
    THEN Loaded("return", NoRedirect, dashboardLoaders(page, ls), {}, InitialState)
    ELSE Loaded(r.result, r.redirect, EmptyBag, {}, InitialState)

\* the home page runs the handler of app.js
homePage(ls) ==
    Loaded("return", NoRedirect, restoreSession(ls).inflight, {}, restoreSession(ls).state)

loadPage(page, ls) ==
    CASE page \in AuthPages -> authPage(ls, page)
      [] page = "/index.html" -> homePage(ls)
      [] OTHER -> dashboardPage(ls, page)

\* a visitor is about to open any page with anything in the store
PageInit ==
    /\ localStorage \in StoreStates
    /\ location \in Pages
    /\ inflight = EmptyBag
    /\ state = InitialState
    /\ firebase \in BOOLEAN
    /\ pending = EmptyBag
    /\ sessionExpired = FALSE
    /\ currentRejectId = Null
    /\ hops = 0
    /\ wired = {}
    /\ last = [op |-> "open", page |-> location]

\* the user opens a page: the old document and what it had in flight are gone
OpenPage ==
    /\ ~Redirecting
    /\ \E page \in Pages :
         /\ location' = page
         /\ last' = [op |-> "open", page |-> page]
    /\ inflight' = EmptyBag
    /\ pending' = EmptyBag
    /\ state' = InitialState
    /\ currentRejectId' = Null
    /\ hops' = 0
    /\ wired' = {}
    /\ UNCHANGED <<localStorage, firebase, sessionExpired>>

\* the browser has loaded the document at `location` -- opened by the user or
\* reached by a redirect -- and its DOMContentLoaded handler runs
LoadPage ==
    /\ last.op = "open" \/ (Redirecting /\ hops < MaxHops)
    /\ LET r == loadPage(location, localStorage) IN
       /\ Navigate(r.redirect)
       /\ inflight' = r.calls
       /\ state' = r.state
       /\ wired' = r.wired
       /\ last' = [op |-> "DOMContentLoaded", page |-> location, before |-> localStorage,
                   result |-> r.result, redirect |-> r.redirect]
    /\ pending' = EmptyBag
    /\ currentRejectId' = Null
    /\ hops' = IF last.op = "open" THEN 0 ELSE hops + 1
    /\ UNCHANGED <<localStorage, firebase, sessionExpired>>

PageSettlements ==
    ConcurrentSettlements
    \cup {Response(200, ObjOf([access_token |-> Str("T1"), user_id |-> Str("u1"),
                               role |-> Str(r)])) : r \in {"ADMIN", "GUEST"}}

\* the submit handler of the login / signup form up to `await API.login / signup`;
\* the signup handler refuses a short password or unchecked terms without a call
SubmitAuthForm ==
    /\ ~Redirecting
    /\ Outstanding < MaxInFlight
    /\ \E form \in wired \cap {"login-form", "signup-form"}, valid \in BOOLEAN :
         LET op == IF form = "login-form" THEN "login" ELSE "signup"
             sent == valid \/ form = "login-form"
             call == [op |-> op, endpoint |-> Endpoint(op),
                      headers |-> requestHeaders(localStorage, <<>>)]
         IN /\ inflight' = IF sent THEN inflight (+) SetToBag({call}) ELSE inflight
            /\ last' = [op |-> "submit", form |-> form, sent |-> sent]
    /\ hops' = 0
    /\ UNCHANGED <<localStorage, location, state, firebase, pending, sessionExpired,
                   currentRejectId, wired>>

\* the submit handler from the point where API.login / signup settles: a result
\* sends the browser to the dashboard of the role in the response
AuthFormSettle ==
    /\ ~Redirecting
    /\ \E call \in BagToSet(inflight), settled \in PageSettlements :
         /\ call.op \in {"login", "signup"}
         /\ LET r == IF call.op = "login" THEN login(localStorage, settled)
                     ELSE signup(localStorage, settled)
                redirect == IF r.result = "return" /\ Truthy(r.value)
                            THEN redirectToDashboard(Get(r.value, "role"))
                            ELSE r.redirect
            IN /\ inflight' = inflight (-) SetToBag({call})
               /\ localStorage' = r.ls
               /\ Navigate(redirect)
               /\ last' = [op |-> "submit.settled", settled |-> settled,
                           result |-> r.result, redirect |-> redirect]
               /\ sessionExpired' =
                    IF settled.t = "response" /\ settled.status = 401 THEN TRUE
                    ELSE IF r.result = "return" /\ Truthy(r.value) THEN FALSE
                    ELSE sessionExpired
    /\ UNCHANGED <<state, firebase, pending, currentRejectId, hops, wired>>

\* a loader's call settles on a dashboard
PageResume ==
    /\ ~Redirecting
    /\ \E call \in BagToSet(inflight), settled \in PageSettlements :
         call.op \notin {"login", "signup", "apiRequest"} /\ Settle(call, settled)

\* the home page's apiRequest settles
HomeResume == ~Redirecting /\ ApiRequestResume

\* the sign-out that a 401 on the home page started settles
HomeSignOutSettle == ~Redirecting /\ SignOutSettle

PageNext ==
    \/ OpenPage \/ LoadPage \/ SubmitAuthForm \/ AuthFormSettle
    \/ PageResume \/ HomeResume \/ HomeSignOutSettle

PageSpec == PageInit /\ [][PageNext]_vars

(***************************************************************************)
(* Campaign detail page: the investment form                               *)
(***************************************************************************)
MaxAmountLen == 3

\* characters typed into the amount field
AmountChars == {"0", "1", "9", ".", "-"}

RECURSIVE TextsOfLen(_)
TextsOfLen(n) ==
    IF n = 0 THEN {<<>>}
    ELSE {<<c>> \o t : c \in AmountChars, t \in TextsOfLen(n - 1)}

\* the value of the amount field, character by character
AmountTexts == UNION {TextsOfLen(n) : n \in 0..MaxAmountLen}

NaN == [t |-> "NaN"]
\* a number, kept as whole hundredths (what lies beyond is cut off)
Num(cents) == [t |-> "number", cents |-> cents]

DigitValue(c) ==
    CASE c = "0" -> 0 [] c = "1" -> 1 [] c = "2" -> 2 [] c = "3" -> 3 [] c = "4" -> 4
      [] c = "5" -> 5 [] c = "6" -> 6 [] c = "7" -> 7 [] c = "8" -> 8 [] c = "9" -> 9

IsDigit(c) == c \in {"0", "1", "2", "3", "4", "5", "6", "7", "8", "9"}

RECURSIVE SkipSpaces(_)
SkipSpaces(t) == IF t # <<>> /\ Head(t) = " " THEN SkipSpaces(Tail(t)) ELSE t

RECURSIVE DigitPrefix(_)
DigitPrefix(t) ==
    IF t # <<>> /\ IsDigit(Head(t)) THEN <<Head(t)>> \o DigitPrefix(Tail(t)) ELSE <<>>

RECURSIVE DigitsValue(_)
DigitsValue(d) ==
    IF d = <<>> THEN 0
    ELSE 10 * DigitsValue(SubSeq(d, 1, Len(d) - 1)) + DigitValue(d[Len(d)])

\* the first two decimals of a fraction, as hundredths
Hundredths(d) ==
    (IF Len(d) >= 1 THEN 10 * DigitValue(d[1]) ELSE 0)
    + (IF Len(d) >= 2 THEN DigitValue(d[2]) ELSE 0)

\* parseFloat: leading blanks, a sign, digits, a fraction; NaN when no digit is read
\* and whatever follows the number is ignored
parseFloat(text) ==
    LET s == SkipSpaces(text)
        signed == s # <<>> /\ Head(s) \in {"-", "+"}
        body == IF signed THEN Tail(s) ELSE s
        int == DigitPrefix(body)
        rest == SubSeq(body, Len(int) + 1, Len(body))
        frac == IF rest # <<>> /\ Head(rest) = "." THEN DigitPrefix(Tail(rest)) ELSE <<>>
        cents == 100 * DigitsValue(int) + Hundredths(frac)
    IN IF int = <<>> /\ frac = <<>> THEN NaN
       ELSE Num(IF signed /\ Head(s) = "-" THEN 0 - cents ELSE cents)

\* a minimum check that lets negative amounts through
belowMinimum_nonNegative(amount) ==
    amount.t = "number" /\ amount.cents >= 0 /\ amount.cents < 100 * 100

\* amount < 100; every comparison with NaN is false
belowMinimum(amount) == amount.t = "number" /\ amount.cents < 100 * 100

\* the sessions a visitor of the campaign page may have
CampaignSessions ==
    {EmptyStorage, setToken(EmptyStorage, Str("T1")),
     setUserData(setToken(EmptyStorage, Str("T1")), Undefined)}
    \cup {setUserData(setToken(EmptyStorage, Str("T1")),
                      Obj([user_id |-> Str("u1"), role |-> Str(r)])) : r \in Roles}

CampaignSettlements ==
    {NetworkError, Response(401, BodyInvalid), Response(404, ObjOf([detail |-> Str("X")])),
     Response(200, Null), Response(200, ObjOf(<<>>)),
     Response(200, ObjOf([checkout_url |-> Str("/checkout")]))}

\* setupInvestmentForm: the submit handler is attached for an authenticated
\* investor only; an unreadable identity throws into loadCampaign's catch
setupInvestmentForm(ls) ==
    IF ~isAuthenticated(ls) THEN [result |-> "return", wired |-> {}]
    ELSE IF getUserData(ls).t = "error" THEN [result |-> "throw", wired |-> {}]
    ELSE IF Get(getUserData(ls), "role") = Str("INVESTOR")
    THEN [result |-> "return", wired |-> {"invest-form"}]
    ELSE [result |-> "return", wired |-> {}]

getCampaignCall(ls) == AdminCall("getCampaign", "/campaigns/c1", ls)

\* the campaign page has opened with ?id=c1 and loadCampaign awaits the campaign
CampaignInit ==
    /\ localStorage \in CampaignSessions
    /\ location = "/campaign.html"
    /\ inflight = SetToBag({getCampaignCall(localStorage)})
    /\ state = InitialState
    /\ firebase = FALSE
    /\ pending = EmptyBag
    /\ sessionExpired = FALSE
    /\ currentRejectId = Null
    /\ hops = 0
    /\ wired = {}
    /\ last = [op |-> "DOMContentLoaded", page |-> "/campaign.html"]

\* the user opens the campaign page again; until a new document is loaded the
\* handlers of this one stay attached, also after a redirect has been assigned
OpenCampaign ==
    /\ location' = "/campaign.html"
    /\ inflight' = SetToBag({getCampaignCall(localStorage)})
    /\ wired' = {}
    /\ hops' = 0
    /\ last' = [op |-> "DOMContentLoaded", page |-> "/campaign.html"]
    /\ UNCHANGED <<localStorage, state, firebase, pending, sessionExpired, currentRejectId>>

\* loadCampaign from the point where API.getCampaign settles: a campaign is shown
\* and setupInvestmentForm runs on the store of that moment
LoadCampaignSettle ==
    /\ \E call \in BagToSet(inflight), settled \in CampaignSettlements :
         /\ call.op = "getCampaign"
         /\ LET r == request(localStorage, settled)
                shown == r.result = "return" /\ Truthy(r.value)
                form == IF shown THEN setupInvestmentForm(r.ls)
                        ELSE [result |-> "return", wired |-> {}]
            IN /\ inflight' = inflight (-) SetToBag({call})
               /\ localStorage' = r.ls
               /\ Navigate(r.redirect)
               /\ wired' = form.wired
               /\ last' = [op |-> "loadCampaign", settled |-> settled, before |-> localStorage,
                           shown |-> shown /\ form.result = "return",
                           redirect |-> r.redirect]
               /\ sessionExpired' = (sessionExpired \/ Answered401(settled))
    /\ UNCHANGED <<state, firebase, pending, currentRejectId, hops>>

\* the submit handler of the investment form up to `await API.initiatePayment`,
\* with `text` in the amount field
Invest(text) ==
    LET amount == parseFloat(text)
        refused == belowMinimum(amount)
        call == [op |-> "initiatePayment", endpoint |-> "/payments/initiate",
                 headers |-> requestHeaders(localStorage, <<>>)]
    IN /\ "invest-form" \in wired
       /\ refused \/ Outstanding < MaxInFlight
       /\ inflight' = IF refused THEN inflight ELSE inflight (+) SetToBag({call})
       /\ last' = [op |-> "invest", amount |-> amount,
                   alert |-> IF refused THEN "Minimum investment is $100" ELSE NoAlert,
                   sent |-> ~refused]
       /\ UNCHANGED <<localStorage, location, state, firebase, pending, sessionExpired,
                      currentRejectId, hops, wired>>

\* amounts a visitor of the campaign page tries: nothing, 99, 100 and -1
AmountSamples == {<<>>, <<"9", "9">>, <<"1", "0", "0">>, <<"-", "1">>}

SubmitInvestment == \E text \in AmountSamples : Invest(text)

\* the submit handler from the point where API.initiatePayment settles
InvestmentSettle ==
    /\ \E call \in BagToSet(inflight), settled \in CampaignSettlements :
         /\ call.op = "initiatePayment"
         /\ LET r == request(localStorage, settled)
                checkout == IF r.result = "return" /\ Truthy(r.value)
                               /\ Truthy(Get(r.value, "checkout_url"))
                            THEN ToStr(Get(r.value, "checkout_url")) ELSE r.redirect
            IN /\ inflight' = inflight (-) SetToBag({call})
               /\ localStorage' = r.ls
               /\ Navigate(checkout)
               /\ last' = [op |-> "invest.settled", settled |-> settled,
                           result |-> r.result, redirect |-> checkout,
                           alert |-> IF r.result = "throw"
                                     THEN "Failed to initiate payment: " \o r.error.message
                                     ELSE NoAlert]
               /\ sessionExpired' = (sessionExpired \/ Answered401(settled))
    /\ UNCHANGED <<state, firebase, pending, currentRejectId, hops, wired>>

\* API.logout() runs in another tab of the same origin: the store is shared, this
\* tab's document stays as it is
OtherTabLogout ==
    /\ localStorage' = clearAll(localStorage)
    /\ last' = [op |-> "logout (other tab)", before |-> localStorage]
    /\ UNCHANGED <<location, inflight, state, firebase, pending, sessionExpired,
                   currentRejectId, hops, wired>>

\* the Logout button that updateNavigation renders on this page
CampaignLogout == isAuthenticated(localStorage) /\ Logout

CampaignNext ==
    \/ OpenCampaign \/ LoadCampaignSettle \/ SubmitInvestment \/ InvestmentSettle
    \/ OtherTabLogout \/ CampaignLogout

CampaignSpec == CampaignInit /\ [][CampaignNext]_vars

(***************************************************************************)
(* The investment form of an investor, with anything in the amount field   *)
(***************************************************************************)
\* an investor's campaign page with the campaign shown and the form wired
InvestInit ==
    /\ localStorage = setUserData(setToken(EmptyStorage, Str("T1")),
                                  Obj([user_id |-> Str("u1"), role |-> Str("INVESTOR")]))
    /\ location = "/campaign.html"
    /\ inflight = EmptyBag
    /\ state = InitialState
    /\ firebase = FALSE
    /\ pending = EmptyBag
    /\ sessionExpired = FALSE
    /\ currentRejectId = Null
    /\ hops = 0
    /\ wired = setupInvestmentForm(localStorage).wired
    /\ last = [op |-> "loadCampaign", shown |-> TRUE, redirect |-> NoRedirect]

SubmitAnyAmount == \E text \in AmountTexts : Invest(text)

InvestNext == SubmitAnyAmount \/ InvestmentSettle

InvestSpec == InvestInit /\ [][InvestNext]_vars

(***************************************************************************)
(* Properties                                                              *)
(***************************************************************************)
ApiOps == {"request", "login", "signup"}
Answered(status) ==
    last.op \in ApiOps /\ last.settled.t = "response" /\ last.settled.status = status
StoredUser == getItem(localStorage, "bossup_user")
StoredToken == getItem(localStorage, "bossup_token")

\* C1: a 401 answer to any call of API.request clears token and identity, sets the
\* location to the login page and makes the call return null, without throwing and
\* without reading the body, whatever the store held before.
C1_Unauthorized ==
    (last.op \in ApiOps /\ last.settled.t = "response" /\ last.settled.status = 401)
    => /\ StoredToken = Null /\ StoredUser = Null
       /\ last.redirect = "/login.html" /\ location = "/login.html"
       /\ last.result = "return" /\ last.value = Null
       /\ ~last.bodyRead

C1_Witness ==
    /\ Answered(401) /\ last.op = "request"
    /\ last.before["bossup_token"] # Null /\ last.before["bossup_user"] # Null
    /\ StoredToken = Null

\* a successful answer of the shape {access_token: T, user_id: U, role: R} to login
LoginAnswered ==
    /\ last.op = "login" /\ last.settled.t = "response" /\ ok(last.settled)
    /\ last.settled.body \in AuthBodies

C3_AuthenticatedOnReturn ==
    (/\ last.op \in {"login", "signup"} /\ last.settled.t = "response"
     /\ ok(last.settled) /\ last.result = "return" /\ last.value.t = "object")
    => isAuthenticated(localStorage)

HasDetail(body) == body.t = "object" /\ "detail" \in DOMAIN body.p
Failed ==
    /\ last.op \in ApiOps /\ last.settled.t = "response"
    /\ last.settled.status # 401 /\ ~ok(last.settled)

AdminOnly == Arr(<<Str("ADMIN")>>)
StoredRole == Get(getUserData(localStorage), "role")

\* C5: requireAuth(['ADMIN']) returns false and redirects to the login page without a
\* session, returns false and redirects to the investor dashboard for an INVESTOR
\* session, and returns true without a redirect for an ADMIN session.
C5_AdminGuard ==
    (last.op = "requireAuth" /\ last.allowedRoles = AdminOnly)
    => /\ ~isAuthenticated(localStorage)
          => last.value = FALSE /\ last.redirect = "/login.html"
                                /\ location = "/login.html"
       /\ (isAuthenticated(localStorage) /\ StoredRole = Str("INVESTOR"))
          => last.value = FALSE /\ last.redirect = "/investor-dashboard.html"
                                /\ location = "/investor-dashboard.html"
       /\ (isAuthenticated(localStorage) /\ StoredRole = Str("ADMIN"))
          => last.value = TRUE /\ last.redirect = NoRedirect

C5_Witness ==
    /\ last.op = "requireAuth" /\ last.allowedRoles = AdminOnly
    /\ isAuthenticated(localStorage) /\ StoredRole = Str("INVESTOR")
    /\ location = "/investor-dashboard.html"

C7_ClearAll ==
    last.op = "clearAll"
    => ~isAuthenticated(localStorage) /\ getUserData(localStorage) = Null

C7_Witness ==
    /\ last.op = "clearAll"
    /\ isAuthenticated(last.before) /\ getUserData(last.before).t = "object"
    /\ getUserData(localStorage) = Null

\* C8: in every reachable state the identity key is present only if the token key is.
C8_IdentityOnlyWithToken == StoredUser # Null => StoredToken # Null

\* C9 as stated: isAuthenticated() is true exactly when a token is stored.
C9_AsStated == isAuthenticated(localStorage) <=> StoredToken # Null

\* C9 amended: isAuthenticated() is true exactly when the stored token is a non-empty
\* string; right after setToken(v) that is the case for every v but the empty string.
C9_NonEmptyToken ==
    /\ isAuthenticated(localStorage) <=> (StoredToken # Null /\ StoredToken.s # "")
    /\ last.op = "setToken" => (isAuthenticated(localStorage) <=> last.arg # Str(""))

C9_Witness ==
    /\ last.op = "setToken" /\ last.arg = Str("")
    /\ StoredToken = Str("") /\ ~isAuthenticated(localStorage)

\* C10 as stated: every call carries Content-Type application/json whatever headers
\* the caller passes, and Authorization: Bearer <token> whenever a token is stored.
C10_AsStated ==
    last.op = "fetch"
    => /\ last.call.headers["Content-Type"] = "application/json"
       /\ last.token # Null
          => /\ "Authorization" \in DOMAIN last.call.headers
             /\ last.call.headers["Authorization"] = "Bearer " \o last.token.s

\* C10 amended: every call carries a Content-Type, application/json unless the
\* caller passes its own; whenever a non-empty token is stored it carries
\* Authorization: Bearer <token> in place of any Authorization the caller passes.
C10_Headers ==
    last.op = "fetch"
    => /\ last.call.headers["Content-Type"] =
            IF "Content-Type" \in DOMAIN last.optHeaders
            THEN last.optHeaders["Content-Type"] ELSE "application/json"
       /\ (last.token # Null /\ last.token # Str(""))
          => /\ "Authorization" \in DOMAIN last.call.headers
             /\ last.call.headers["Authorization"] = "Bearer " \o last.token.s

C10_Witness ==
    /\ last.op = "fetch" /\ last.token = Str("T1")
    /\ last.optHeaders = Header("Authorization", "Basic abc")
    /\ last.call.headers["Authorization"] = "Bearer T1"

\* C11 as stated: once a 401 has been handled, every call issued before the next
\* successful login or signup is sent without an Authorization header, and every
\* requireAuth check in that interval returns false.
C11_AsStated ==
    sessionExpired
    => /\ last.op = "fetch" => "Authorization" \notin DOMAIN last.call.headers
       /\ last.op = "requireAuth" => last.result = "return" /\ last.value = FALSE

\* C11 amended: once a 401 has been handled, every call issued before the next
\* successful login or signup finds no token and carries no Bearer header: its
\* Authorization header is the caller's own if the caller passes one and absent
\* otherwise; every requireAuth check in that interval returns false and redirects
\* to the login page.
C11_ClearVisible ==
    sessionExpired
    => /\ last.op = "fetch"
          => /\ last.token = Null
             /\ IF "Authorization" \in DOMAIN last.optHeaders
                THEN last.call.headers["Authorization"] = last.optHeaders["Authorization"]
                ELSE "Authorization" \notin DOMAIN last.call.headers
       /\ last.op = "requireAuth"
          => /\ last.result = "return" /\ last.value = FALSE
             /\ last.redirect = "/login.html"

C11_Witness ==
    /\ sessionExpired /\ last.op = "fetch" /\ last.call.op = "request"
    /\ last.optHeaders = <<>> /\ "Authorization" \notin DOMAIN last.call.headers
    /\ location = "/login.html"

Cleared(ls) == ls["bossup_token"] = Null /\ ls["bossup_user"] = Null
\* login or signup got a successful answer and returned its payload
AuthSucceeded ==
    /\ last.op \in {"login", "signup"} /\ last.settled.t = "response"
    /\ ok(last.settled) /\ last.result = "return"
\* the three events the claim names, seen in the state they lead to
SessionEvent ==
    \/ AuthSucceeded /\ StoredToken # Null /\ StoredUser # Null
    \/ last.op = "logout" /\ Cleared(localStorage)
    \/ Answered(401) /\ Cleared(localStorage)
\* every other outcome of a call: failure, transport failure, payload of another endpoint
OtherOutcome ==
    /\ last.op \in ApiOps /\ ~Answered(401)
    /\ last.op = "request" \/ last.result = "throw"

RoleRefused ==
    /\ last.op = "requireAuth" /\ last.allowedRoles # Null
    /\ isAuthenticated(localStorage) /\ ~Includes(last.allowedRoles, StoredRole)

\* C13: requireAuth with a role list, on an authenticated session whose role is not
\* in the list, returns false and redirects to the surface of the stored role: the
\* investor dashboard for INVESTOR, the business dashboard for BUSINESS_OWNER, the
\* admin page for ADMIN, and the home page for an unknown or absent role.
C13_OwnSurface ==
    RoleRefused
    => /\ last.result = "return" /\ last.value = FALSE
       /\ last.redirect = location
       /\ StoredRole = Str("INVESTOR") => location = "/investor-dashboard.html"
       /\ StoredRole = Str("BUSINESS_OWNER") => location = "/business-dashboard.html"
       /\ StoredRole = Str("ADMIN") => location = "/admin.html"
       /\ StoredRole \notin {Str(r) : r \in Roles} => location = "/index.html"

C13_Witness ==
    /\ RoleRefused /\ last.allowedRoles = Arr(<<Str("INVESTOR")>>)
    /\ StoredRole = Str("BUSINESS_OWNER") /\ location = "/business-dashboard.html"
    /\ last.value = FALSE

\* the fetch of the call that just ended was rejected by the transport
TransportFailed == last.op \in ApiOps /\ last.settled.t = "reject"

\* C14: when the fetch of a call is rejected by the transport, the call throws the
\* transport's error with its message, assigns no location and leaves the store
\* and the location as they were.
C14_TransportFailure ==
    [][TransportFailed'
       => /\ last'.result = "throw"
          /\ last'.error = last'.settled.error
          /\ last'.error.message = "Failed to fetch"
          /\ last'.redirect = NoRedirect /\ location' = location
          /\ localStorage' = localStorage]_vars

C14_Witness ==
    /\ TransportFailed /\ last.op = "request" /\ last.result = "throw"
    /\ last.error.message = "Failed to fetch"
    /\ StoredToken = Str("T1") /\ StoredUser # Null /\ localStorage = last.before

\* what a response gives the caller of `op` when that call is the only one made on
\* a fresh page
Alone(op, settled) ==
    LET r == CASE op = "login" -> login(EmptyStorage, settled)
               [] op = "signup" -> signup(EmptyStorage, settled)
               [] OTHER -> request(EmptyStorage, settled)
    IN [result |-> r.result, value |-> r.value, error |-> r.error]

\* C15: starting a call adds it to the calls in flight and leaves the earlier ones
\* as they are; a response ends exactly the call it answers, gives that call the
\* outcome this response gives a call made alone, and leaves the others in flight.
C15_OwnOutcome ==
    [][/\ last'.op = "fetch" => inflight' = inflight (+) SetToBag({last'.call})
       /\ last'.op \in ApiOps
          => /\ \E call \in BagToSet(inflight) :
                    call.op = last'.op /\ inflight' = inflight (-) SetToBag({call})
             /\ [result |-> last'.result, value |-> last'.value, error |-> last'.error]
                  = Alone(last'.op, last'.settled)]_vars

C15_Witness ==
    /\ last.op = "request" /\ Answered(200) /\ last.result = "return"
    /\ sessionExpired /\ last.before["bossup_token"] = Null
    /\ \E call \in BagToSet(inflight) :
          call.op = "request" /\ "Authorization" \in DOMAIN call.headers

\* a store with a token or without one, and an identity of the given role
StoreWith(hasToken, role) ==
    setUserData(IF hasToken THEN setToken(EmptyStorage, Str("T1")) ELSE EmptyStorage,
                Obj([user_id |-> Str("u1"), role |-> role]))
Decision(r) == [result |-> r.result, value |-> r.value, redirect |-> r.redirect]

\* C16 as stated: requireAuth leaves token and identity as they were, starts no
\* call, and returns and redirects as it does on any other store with the same
\* token presence and the same stored role, given the same role list.
C16_AsStated ==
    [][last'.op = "requireAuth"
       => /\ localStorage' = localStorage
          /\ inflight' = inflight /\ pending' = pending
          /\ Decision(last')
               = Decision(requireAuth(StoreWith(StoredToken # Null, StoredRole),
                                      last'.allowedRoles))]_vars

\* C16 amended: requireAuth leaves token and identity as they were and starts no
\* call; on an authenticated session whose identity text is not JSON it throws and
\* redirects nowhere; in every other case it returns and redirects as it does on
\* any other store where the token is likewise a non-empty string or not and the
\* stored role is the same, given the same role list.
C16_PureDecision ==
    [][last'.op = "requireAuth"
       => /\ localStorage' = localStorage
          /\ inflight' = inflight /\ pending' = pending
          /\ IF isAuthenticated(localStorage) /\ getUserData(localStorage).t = "error"
             THEN last'.result = "throw" /\ last'.redirect = NoRedirect
                  /\ location' = location
             ELSE Decision(last')
                    = Decision(requireAuth(StoreWith(isAuthenticated(localStorage),
                                                     StoredRole),
                                           last'.allowedRoles))]_vars

C16_Witness ==
    /\ last.op = "requireAuth" /\ last.allowedRoles = Arr(<<Str("INVESTOR")>>)
    /\ StoredToken = Str("") /\ StoredRole = Str("INVESTOR")
    /\ last.value = FALSE /\ last.redirect = "/login.html"

\* C17: from every store, calling clearAll twice in a row leaves the store exactly
\* as the first call left it.
C17_Idempotent ==
    last.op = "clearAll.clearAll"
    => localStorage = last.once /\ last.once = clearAll(last.before)

C17_Witness ==
    /\ last.op = "clearAll.clearAll"
    /\ last.before["bossup_token"] # Null /\ last.before["bossup_user"] # Null
    /\ localStorage = last.once /\ Cleared(localStorage)

\* C18 as stated: right after setToken(t) getToken() is t, and right after
\* setUserData(d) getUserData() is a value equal to d, for every value given.
C18_AsStated ==
    /\ last.op = "setToken" => getToken(localStorage) = last.arg
    /\ last.op = "setUserData" => getUserData(localStorage) = last.arg

\* C18 amended: right after setToken(t) getToken() is t when t is a string and the
\* text 'undefined' or 'null' when t is undefined or null; right after
\* setUserData(d) getUserData() is null when d is null, d without its undefined
\* members when d is an object, and a thrown SyntaxError when d is undefined.
C18_RoundTrip ==
    /\ last.op = "setToken"
       => getToken(localStorage) =
            CASE last.arg = Undefined -> Str("undefined")
              [] last.arg = Null -> Str("null")
              [] OTHER -> last.arg
    /\ last.op = "setUserData"
       => CASE last.arg = Undefined ->
                 /\ StoredUser = Str("undefined")
                 /\ getUserData(localStorage).t = "error"
                 /\ getUserData(localStorage).name = "SyntaxError"
            [] last.arg = Null -> getUserData(localStorage) = Null
            [] OTHER -> getUserData(localStorage) = ObjOf(last.arg.p)

C18_Witness ==
    /\ last.op = "setUserData"
    /\ last.arg = Obj([user_id |-> Str("u1"), role |-> Str("ADMIN")])
    /\ getUserData(localStorage) = last.arg
    /\ getToken(localStorage) = Str("T2")

\* C19: after API.logout(), whatever the store held, the token and the identity are
\* both absent, isAuthenticated() is false and the location is the login page.
C19_Logout ==
    last.op = "logout"
    => /\ StoredToken = Null /\ StoredUser = Null
       /\ ~isAuthenticated(localStorage) /\ getUserData(localStorage) = Null
       /\ last.redirect = "/login.html" /\ location = "/login.html"

C19_Witness ==
    /\ last.op = "logout"
    /\ isAuthenticated(last.before) /\ last.before["bossup_user"] # Null
    /\ ~isAuthenticated(localStorage) /\ location = "/login.html"

\* C20: the admin page shows 'Campaign approved successfully!' or 'Campaign rejected'
\* only when the approve or reject call got a successful answer and returned its
\* payload; after a 401 or a failure it shows neither.
C20_SuccessOnlyOnPayload ==
    (/\ last.op \in {"approveCampaign.settled", "rejectCampaign.settled"}
     /\ last.alert \in {"Campaign approved successfully!", "Campaign rejected"})
    => /\ last.settled.t = "response" /\ ok(last.settled)
       /\ last.result = "return" /\ last.value # Null

\* C21: a 401 clears the store only when the call it answers was sent with the token
\* that is stored at that moment; a 401 answering a call sent before a later login
\* or signup succeeded leaves the session of that login or signup in place.
C21_StaleUnauthorized ==
    [][(Answered(401)' /\ StoredToken \in {Str(t) : t \in Tokens})
       => \/ localStorage' = localStorage
          \/ \E call \in BagToSet(inflight) :
                /\ call.op = last'.op /\ inflight' = inflight (-) SetToBag({call})
                /\ "Authorization" \in DOMAIN call.headers
                /\ call.headers["Authorization"] = "Bearer " \o getToken(localStorage).s]_vars

\* C23: once apiRequest has handled a 401 it has returned null and the user is being
\* signed out: a sign-out is under way, or state.token and state.user are null and
\* 'bossup_token' is removed -- with or without the Firebase SDK.
C23_SignedOutOn401 ==
    (last.op = "apiRequest.settled" /\ last.signOut)
        => /\ last.value = Null
           /\ \/ BagIn("signOut", pending)
              \/ /\ state.token = Null /\ state.user = Null
                 /\ getItem(localStorage, "bossup_token") = Null

\* C24: the apiRequest that follows a signed-out auth-state event, with no token
\* exchange in between, carries no Authorization header.
C24_NoHeaderAfterSignedOut ==
    [][(last.op = "onAuthStateChanged" /\ ~last.user /\ last'.op = "apiRequest")
        => "Authorization" \notin DOMAIN last'.call.headers]_vars

\* C25: after a token exchange, a sign-out, a signed-out auth-state event or a
\* page-load restore has completed, state.token is non-null exactly when
\* 'bossup_token' is stored, and then state.token is the stored value.
C25_TokenMirrorsStorage ==
    \/ last.op \in {"exchangeTokenWithBackend", "signOut.settled", "DOMContentLoaded"}
    \/ (last.op = "onAuthStateChanged" /\ ~last.user)
    => /\ state.token # Null <=> getItem(localStorage, "bossup_token") # Null
       /\ state.token # Null => state.token = getItem(localStorage, "bossup_token")

\* C26: state.isLoading is true exactly while a signIn or signUp call is in flight,
\* however many of them overlap and in whatever order they complete.
C26_LoadingWhileSigningIn == state.isLoading <=> SigningIn > 0

\* C22: from any store state on any page the automatic redirects of requireAuth, of
\* the auth page's logged-in check and of the 401 handlers end on a page that
\* redirects no further: a chain never runs up to the number of hops the browser
\* would follow, so there is no redirect cycle.
C22_NoRedirectCycle == hops < MaxHops

C22_Witness ==
    /\ hops = 2 /\ ~Redirecting
    /\ last.op = "DOMContentLoaded" /\ last.page = "/login.html"

C28_InvestorOnly ==
    (last.op = "invest" /\ last.sent /\ last.amount.t = "number")
        => /\ isAuthenticated(localStorage)
           /\ getUserData(localStorage).t # "error"
           /\ Get(getUserData(localStorage), "role") = Str("INVESTOR")

\* C29: submitting an amount below 100 shows 'Minimum investment is $100' and
\* starts no request.
C29_MinimumInvestment ==
    [][(last'.op = "invest" /\ last'.amount.t = "number" /\ last'.amount.cents < 10000)
        => /\ last'.alert = "Minimum investment is $100"
           /\ ~last'.sent
           /\ inflight' = inflight]_vars

C29_Witness ==
    /\ last.op = "invest" /\ last.amount = Num(9900)
    /\ last.alert = "Minimum investment is $100"
    /\ inflight = EmptyBag

\* C30: whatever openRejectModal, closeRejectModal and submissions of the rejection
\* form came before, a rejectCampaign call in flight is addressed to a campaign id
\* that openRejectModal was given, never to a null id.
C30_RejectCarriesOpenedId ==
    \A call \in BagToSet(inflight) :
        call.op = "rejectCampaign"
            => call.endpoint \in {"/admin/campaigns/" \o id \o "/reject" : id \in CampaignIds}

====
